---- MODULE Spec2Model ----
(***************************************************************************)
(* Model of the MSK Wealth Management AI portal:                           *)
(*   src/agent.py  trigger_sync, get_sync_status, format_sources,          *)
(*                 query_engine, get_agent_response                        *)
(*   src/app.py    run_sync_flow, add_user_message, get_bot_response and   *)
(*                 the event wiring of create_gradio_interface             *)
(* Six specifications share the variables; each one moves the variables    *)
(* of one part of the program and leaves the others at rest:               *)
(*   SyncSpec        the ingestion job monitor (run_sync_flow)             *)
(*   SyncLiveSpec    the same monitor, polling without bound, with         *)
(*                   weak fairness on every step                           *)
(*   FmtSpec         format_sources as a pure function of its input        *)
(*   AgentSpec       one call of get_agent_response                        *)
(*   ChatSpec        one chat session (submit / clear / get_bot_response)  *)
(*   ChatSerialSpec  a chat session whose turns run one at a time          *)
(***************************************************************************)
EXTENDS Integers, Sequences, FiniteSets, TLC

VARIABLES
    \* ---- run_sync_flow (src/app.py 35-50) and the ingestion backend
    sync_pc,          \* position of the run_sync_flow generator
    job,              \* status of the ingestion job held by the backend
    job_id,           \* local job_id of run_sync_flow
    current_status,   \* local current_status of run_sync_flow
    events,           \* the strings run_sync_flow has yielded, in order
    polls,            \* number of calls of get_sync_status made so far
    reported,         \* what trigger_sync and each get_sync_status returned
    \* ---- format_sources (src/agent.py 102-128)
    fmt_nodes,        \* the source_nodes argument
    fmt_out,          \* the outcome of the call
    \* ---- get_agent_response (src/agent.py 131-154)
    gar_pc,           \* position inside get_agent_response
    gar_history,      \* the chat_history argument
    gar_retrieved,    \* passages the retriever returned to query_engine
    gar_rerank,       \* what the reranker did in the direct query
    gar_nodes,        \* engine_response.source_nodes
    gar_trace,        \* the backend calls made so far, in order
    gar_out,          \* what the caller of get_agent_response observes
    \* ---- chat session (src/app.py 53-103)
    history,          \* value of the Chatbot component
    msg,              \* value of the Textbox component
    tasks,            \* the get_bot_response invocations of the session
    submits           \* number of submit events so far

sync_vars == <<sync_pc, job, job_id, current_status, events, polls, reported>>
fmt_vars == <<fmt_nodes, fmt_out>>
gar_vars == <<gar_pc, gar_history, gar_retrieved, gar_rerank, gar_nodes, gar_trace, gar_out>>
chat_vars == <<history, msg, tasks, submits>>
vars == <<sync_vars, fmt_vars, gar_vars, chat_vars>>

\* Each part of the program leaves the variables of the other parts alone.
SyncOnly == UNCHANGED <<fmt_vars, gar_vars, chat_vars>>
FmtOnly == UNCHANGED <<sync_vars, gar_vars, chat_vars>>
AgentOnly == UNCHANGED <<sync_vars, fmt_vars, chat_vars>>
ChatOnly == UNCHANGED <<sync_vars, fmt_vars, gar_vars>>

(***************************************************************************)
(* Bounds of the model.                                                    *)
(***************************************************************************)
MaxPolls == 4

(***************************************************************************)
(* Ingestion job monitor.                                                  *)
(***************************************************************************)
None == "None"

\* str(e) of a failed backend call: some text that is no job status.
ErrText == "ClientError"

\* The statuses an ingestion job goes through at the backend.
JobStatuses == {"STARTING", "IN_PROGRESS", "COMPLETE", "FAILED", "STOPPED"}

\* The list of the while condition of run_sync_flow.
TerminalStatuses == {"COMPLETE", "FAILED", "STOPPED"}

\* The backend moves a job forward only; a terminal job stays as it is.
JobSuccessors(s) ==
    CASE s = "STARTING" -> {"IN_PROGRESS", "FAILED", "STOPPED"}
      [] s = "IN_PROGRESS" -> {"COMPLETE", "FAILED", "STOPPED"}
      [] OTHER -> {}

\* trigger_sync: (jobId, status) of the started job, or (None, str(e)).
trigger_sync ==
    {[job_id |-> "job-1", status |-> s, ok |-> TRUE] : s \in JobStatuses}
        \cup {[job_id |-> None, status |-> ErrText, ok |-> FALSE]}

\* get_sync_status: the job's status at the backend, or str(e).
get_sync_status(j) ==
    {[status |-> j, ok |-> TRUE], [status |-> ErrText, ok |-> FALSE]}

\* `if not job_id`
TriggerFailedMut(jid) == FALSE
TriggerFailed(jid) == jid = None

\* `while current_status not in ["COMPLETE", "FAILED", "STOPPED"]`
KeepPollingMut(s) == s \notin {"COMPLETE", "FAILED"}
KeepPolling(s) == s \notin TerminalStatuses

ErrorEvent(text) == [kind |-> "error", job_id |-> None, status |-> text]
ProgressEvent(jid, s) == [kind |-> "progress", job_id |-> jid, status |-> s]
SuccessEvent == [kind |-> "success", job_id |-> None, status |-> "-"]
EndedEvent(s) == [kind |-> "ended", job_id |-> None, status |-> s]

SyncInit ==
    /\ sync_pc = "idle"
    /\ job = None
    /\ job_id = None
    /\ current_status = None
    /\ events = <<>>
    /\ polls = 0
    /\ reported = <<>>

\* sync_btn.click(run_sync_flow, outputs=status_output)
SyncClick ==
    /\ sync_pc = "idle"
    /\ sync_pc' = "trigger"
    /\ UNCHANGED <<job, job_id, current_status, events, polls, reported>>
    /\ SyncOnly

\* Lines 36-41: the trigger, and the early return on a failed trigger.
RunSyncFlow_Trigger ==
    /\ sync_pc = "trigger"
    /\ \E r \in trigger_sync :
        /\ reported' = Append(reported, [src |-> "trigger", ok |-> r.ok, status |-> r.status])
        /\ job' = IF r.ok THEN r.status ELSE job
        /\ job_id' = r.job_id
        /\ IF TriggerFailed(r.job_id)
             THEN /\ events' = Append(events, ErrorEvent(r.status))
                  /\ sync_pc' = "done"
                  /\ UNCHANGED current_status
             ELSE /\ current_status' = r.status
                  /\ sync_pc' = "loop"
                  /\ UNCHANGED events
    /\ UNCHANGED polls
    /\ SyncOnly

\* Lines 42-44: the loop condition holds, one poll, one yield.
RunSyncFlow_Poll ==
    /\ sync_pc = "loop"
    /\ KeepPolling(current_status)
    /\ polls < MaxPolls
    /\ \E r \in get_sync_status(job) :
        /\ reported' = Append(reported, [src |-> "poll", ok |-> r.ok, status |-> r.status])
        /\ current_status' = r.status
        /\ events' = Append(events, ProgressEvent(job_id, r.status))
    /\ polls' = polls + 1
    /\ sync_pc' = "sleep"
    /\ UNCHANGED <<job, job_id>>
    /\ SyncOnly

\* Line 45: await asyncio.sleep(3)
RunSyncFlow_Sleep ==
    /\ sync_pc = "sleep"
    /\ sync_pc' = "loop"
    /\ UNCHANGED <<job, job_id, current_status, events, polls, reported>>
    /\ SyncOnly

\* Lines 47-50: the loop condition fails, the last yield.
RunSyncFlow_Finish ==
    /\ sync_pc = "loop"
    /\ ~KeepPolling(current_status)
    /\ events' = Append(events, IF current_status = "COMPLETE"
                                  THEN SuccessEvent
                                  ELSE EndedEvent(current_status))
    /\ sync_pc' = "done"
    /\ UNCHANGED <<job, job_id, current_status, polls, reported>>
    /\ SyncOnly

\* The backend moves the ingestion job on, independently of the monitor.
BackendAdvance ==
    /\ job \in JobStatuses
    /\ \E s \in JobSuccessors(job) : job' = s
    /\ UNCHANGED <<sync_pc, job_id, current_status, events, polls, reported>>
    /\ SyncOnly

SyncNext ==
    \/ SyncClick
    \/ RunSyncFlow_Trigger
    \/ RunSyncFlow_Poll
    \/ RunSyncFlow_Sleep
    \/ RunSyncFlow_Finish
    \/ BackendAdvance

\* Lines 42-44 once MaxPolls polls are on record: the loop itself has no
\* bound and goes on polling; the model stops counting the polls and
\* recording their results and yields, and keeps current_status.
RunSyncFlow_PollOn ==
    /\ sync_pc = "loop"
    /\ KeepPolling(current_status)
    /\ polls = MaxPolls
    /\ \E r \in get_sync_status(job) : current_status' = r.status
    /\ sync_pc' = "sleep"
    /\ UNCHANGED <<job, job_id, events, polls, reported>>
    /\ SyncOnly

SyncLiveNext ==
    \/ SyncClick
    \/ RunSyncFlow_Trigger
    \/ RunSyncFlow_Poll
    \/ RunSyncFlow_PollOn
    \/ RunSyncFlow_Sleep
    \/ RunSyncFlow_Finish
    \/ BackendAdvance

(***************************************************************************)
(* format_sources.                                                         *)
(* A URI is modelled by the list s3_uri.split('/') of its segments: the    *)
(* empty string is <<"">>. A page number is a tagged value: the key may be *)
(* absent, or hold an integer, or hold a text that is no numeral.          *)
(***************************************************************************)
MaxNodes == 3

EmptyUri == <<"">>
Uris ==
    { EmptyUri,
      <<"s3:", "", "b", "a.pdf">>,
      <<"s3:", "", "b", "c.pdf">>,
      <<"s3:", "", "d", "a.pdf">> }

AbsentPage == [t |-> "absent", n |-> 0]
Pages ==
    {AbsentPage, [t |-> "text", n |-> 0]}
        \cup {[t |-> "int", n |-> k] : k \in {-1, 0, 2, 5}}

\* A node whose metadata has no 'sourceMetadata' key, and the nodes that have it.
NoSourceMetadata == [meta |-> FALSE, uri |-> EmptyUri, page |-> AbsentPage]
Nodes ==
    {NoSourceMetadata} \cup {[meta |-> TRUE, uri |-> u, page |-> p] : u \in Uris, p \in Pages}

SeqsUpTo(S, n) == UNION {[1..k -> S] : k \in 0..n}

\* metadata.get('sourceMetadata', {}).get('x-amz-bedrock-kb-source-uri', '')
SourceUri(node) == IF node.meta THEN node.uri ELSE EmptyUri

\* metadata.get('sourceMetadata', {}).get('x-amz-bedrock-kb-document-page-number', '')
PageNum(node) == IF node.meta THEN node.page ELSE AbsentPage

\* Truth value of a string: `if s3_uri`
UriTruthyMut(u) == TRUE
UriTruthy(u) == u # EmptyUri

\* Truth value of a page number: `if page_num`
PageTruthy(p) ==
    CASE p.t = "absent" -> FALSE
      [] p.t = "int" -> p.n # 0
      [] OTHER -> TRUE

\* int(page_num) raises ValueError on a text that is no numeral.
IntRaises(p) == p.t = "text"

\* s3_uri.split('/')[-1]
FilenameMut(u) == u[1]
Filename(u) == u[Len(u)]

\* `s3_uri not in seen_sources`
NotSeenMut(u, seen) == TRUE
NotSeen(u, seen) == u \notin seen

\* One entry of `sources`: the filename, with or without " (Page N)".
Label(u, p) ==
    IF PageTruthy(p)
      THEN [filename |-> Filename(u), paged |-> TRUE, page |-> p.n]
      ELSE [filename |-> Filename(u), paged |-> FALSE, page |-> 0]

\* The for loop of lines 110-124, from node i on. `origin` records, for each
\* entry of sources, the index of the node it was made from.
RECURSIVE FormatLoop(_, _, _)
FormatLoop(nodes, i, acc) ==
    IF i > Len(nodes) \/ acc.raised
      THEN acc
      ELSE LET u == SourceUri(nodes[i])
               p == PageNum(nodes[i])
           IN IF UriTruthy(u) /\ NotSeen(u, acc.seen)
                THEN IF PageTruthy(p) /\ IntRaises(p)
                       THEN [acc EXCEPT !.raised = TRUE]
                       ELSE FormatLoop(nodes, i + 1,
                                [sources |-> Append(acc.sources, Label(u, p)),
                                 origin |-> Append(acc.origin, i),
                                 seen |-> acc.seen \cup {u},
                                 raised |-> FALSE])
                ELSE FormatLoop(nodes, i + 1, acc)

\* format_sources(source_nodes): the text returned ("" is no header and no
\* lines), or the exception raised.
format_sources(nodes) ==
    LET acc == FormatLoop(nodes, 1,
                   [sources |-> <<>>, origin |-> <<>>, seen |-> {}, raised |-> FALSE])
    IN IF nodes = <<>>
         THEN [status |-> "returned", header |-> FALSE, lines |-> <<>>, origin |-> <<>>]
         ELSE IF acc.raised
           THEN [status |-> "raised", header |-> FALSE, lines |-> <<>>, origin |-> <<>>]
           ELSE [status |-> "returned", header |-> acc.sources # <<>>,
                 lines |-> acc.sources, origin |-> acc.origin]

FmtPending == [status |-> "pending", header |-> FALSE, lines |-> <<>>, origin |-> <<>>]

FmtRest ==
    /\ fmt_nodes = <<>>
    /\ fmt_out = FmtPending

FormatSourcesCall ==
    /\ fmt_out.status = "pending"
    /\ fmt_out' = format_sources(fmt_nodes)
    /\ UNCHANGED fmt_nodes
    /\ FmtOnly

FmtNext == FormatSourcesCall

(***************************************************************************)
(* get_agent_response and the query engine.                                *)
(* The retriever asks the knowledge base for numberOfResults passages and  *)
(* the reranker keeps top_n of them; the model draws at most MaxRetrieved  *)
(* passages from KBNodes. query_engine is built with the reranker as its   *)
(* only node postprocessor and nothing around it: an exception of the      *)
(* reranker leaves query_engine.query as an exception.                     *)
(***************************************************************************)
MaxRetrieved == 4
MaxHistory == 2
top_n == 3

KBNodes ==
    { [meta |-> TRUE, uri |-> <<"s3:", "", "b", "a.pdf">>, page |-> [t |-> "int", n |-> 2]],
      [meta |-> TRUE, uri |-> <<"s3:", "", "b", "c.pdf">>, page |-> [t |-> "text", n |-> 0]],
      NoSourceMetadata }

\* An element of chat_history: a dict with "role" and "content", or a dict
\* that lacks one of the keys.
HistoryEntries ==
    { [keys |-> TRUE, role |-> "user", content |-> "q"],
      [keys |-> TRUE, role |-> "assistant", content |-> "a"],
      [keys |-> FALSE, role |-> "-", content |-> "-"] }

Min(a, b) == IF a < b THEN a ELSE b

\* The first n elements of a list.
Take(s, n) == SubSeq(s, 1, Min(n, Len(s)))

\* Lines 134-140: msg["role"], msg["content"] raise KeyError on a missing key.
ConvertRaises(chat_history) ==
    \E i \in 1..Len(chat_history) : ~chat_history[i].keys

\* What a successful rerank may return: top_n of the passages (all of them
\* when there are fewer), in the order of the scores the reranking model gives.
RerankResults(passages) ==
    LET k == Min(top_n, Len(passages))
    IN { [i \in 1..k |-> passages[f[i]]] :
            f \in {g \in [1..k -> 1..Len(passages)] :
                      \A i, j \in 1..k : i # j => g[i] # g[j]} }

GarPending == [status |-> "pending", kind |-> "-", detail |-> "-",
               header |-> FALSE, lines |-> <<>>, body |-> <<>>]

\* The parts of sources_text: nothing for "", else the "**Sources:**" block.
SourcesText(text) == IF text.header THEN <<"sources">> ELSE <<>>

\* Line 151: return str(response) + sources_text
\* `body` is the returned string as the list of its parts, in order.
AnswerMut(text) == [status |-> "returned", kind |-> "answer", detail |-> "-",
                    header |-> text.header, lines |-> text.lines,
                    body |-> SourcesText(text) \o <<"response">>]
Answer(text) == [status |-> "returned", kind |-> "answer", detail |-> "-",
                 header |-> text.header, lines |-> text.lines,
                 body |-> <<"response">> \o SourcesText(text)]

\* Lines 153-154: except Exception as e: return f"I apologize, ... {str(e)}"
ExceptHandlerMut(e) ==
    IF e = "ValueError"
      THEN [status |-> "raised", kind |-> "-", detail |-> e, header |-> FALSE,
            lines |-> <<>>, body |-> <<>>]
      ELSE [status |-> "returned", kind |-> "apology", detail |-> e,
            header |-> FALSE, lines |-> <<>>, body |-> <<"apology">>]
ExceptHandler(e) ==
    [status |-> "returned", kind |-> "apology", detail |-> e,
     header |-> FALSE, lines |-> <<>>, body |-> <<"apology">>]

GarRest ==
    /\ gar_pc = "idle"
    /\ gar_history = <<>>
    /\ gar_retrieved = <<>>
    /\ gar_rerank = "-"
    /\ gar_nodes = <<>>
    /\ gar_trace = <<>>
    /\ gar_out = GarPending

\* Lines 134-142: the history is converted to ChatMessages.
GAR_Convert ==
    /\ gar_pc = "idle"
    /\ IF ConvertRaises(gar_history)
         THEN /\ gar_out' = ExceptHandler("KeyError")
              /\ gar_pc' = "done"
         ELSE /\ gar_pc' = "run"
              /\ UNCHANGED gar_out
    /\ UNCHANGED <<gar_history, gar_retrieved, gar_rerank, gar_nodes, gar_trace>>
    /\ AgentOnly

\* Line 145: response = await agent.run(user_message, chat_history=messages)
GAR_AgentRun ==
    /\ gar_pc = "run"
    /\ gar_trace' = Append(gar_trace, "agent.run")
    /\ \/ /\ gar_pc' = "query"
          /\ UNCHANGED gar_out
       \/ /\ gar_out' = ExceptHandler("AgentError")
          /\ gar_pc' = "done"
    /\ UNCHANGED <<gar_history, gar_retrieved, gar_rerank, gar_nodes>>
    /\ AgentOnly

\* Line 148, first half of query_engine.query(message): the retriever.
GAR_Retrieve ==
    /\ gar_pc = "query"
    /\ gar_trace' = Append(gar_trace, "retrieve")
    /\ \/ /\ \E ps \in SeqsUpTo(KBNodes, MaxRetrieved) : gar_retrieved' = ps
          /\ gar_pc' = "rerank"
          /\ UNCHANGED gar_out
       \/ /\ gar_out' = ExceptHandler("RetrievalError")
          /\ gar_pc' = "done"
          /\ UNCHANGED gar_retrieved
    /\ UNCHANGED <<gar_history, gar_rerank, gar_nodes>>
    /\ AgentOnly

\* Line 148, second half: node_postprocessors=[reranker], then the response.
GAR_Rerank ==
    /\ gar_pc = "rerank"
    /\ gar_trace' = Append(gar_trace, "rerank")
    /\ \/ /\ \E ns \in RerankResults(gar_retrieved) : gar_nodes' = ns
          /\ gar_rerank' = "ok"
          /\ gar_pc' = "format"
          /\ UNCHANGED gar_out
       \/ /\ gar_rerank' = "error"
          /\ gar_out' = ExceptHandler("RerankError")
          /\ gar_pc' = "done"
          /\ UNCHANGED gar_nodes
    /\ UNCHANGED <<gar_history, gar_retrieved>>
    /\ AgentOnly

\* Lines 149-151: the citations are formatted and appended to the answer.
GAR_Format ==
    /\ gar_pc = "format"
    /\ gar_trace' = Append(gar_trace, "format_sources")
    /\ LET text == format_sources(gar_nodes)
       IN gar_out' = IF text.status = "raised"
                       THEN ExceptHandler("ValueError")
                       ELSE Answer(text)
    /\ gar_pc' = "done"
    /\ UNCHANGED <<gar_history, gar_retrieved, gar_rerank, gar_nodes>>
    /\ AgentOnly

AgentNext ==
    \/ GAR_Convert
    \/ GAR_AgentRun
    \/ GAR_Retrieve
    \/ GAR_Rerank
    \/ GAR_Format

(***************************************************************************)
(* The chat session.                                                       *)
(* A message is the list of its characters. A turn is a dict with "role"   *)
(* and "content"; the model adds `id`, the number of the submit whose user *)
(* message the turn is or answers, which the program does not store.       *)
(* The components hold values: an event handler is handed the value the    *)
(* component has when the event is dispatched, works on that copy, and     *)
(* each value it returns or yields replaces the component's value. The     *)
(* interface disables no input while a turn is in flight.                  *)
(***************************************************************************)
MaxSubmits == 3

\* What the user may have typed into the Textbox when submitting.
Messages == { <<>>, <<" ", " ">>, <<" ", "b", " ">> }

Placeholder == <<"Searching knowledge base...">>

\* The strings get_agent_response returns: an answer or the apology.
Responses == { <<"answer">>, <<"I apologize">> }

RECURSIVE LStrip(_)
LStrip(m) == IF m # <<>> /\ Head(m) = " " THEN LStrip(Tail(m)) ELSE m

RECURSIVE RStrip(_)
RStrip(m) ==
    IF m # <<>> /\ m[Len(m)] = " " THEN RStrip(SubSeq(m, 1, Len(m) - 1)) ELSE m

\* message.strip()
Strip(m) == RStrip(LStrip(m))

\* `if not message.strip()`
IsBlank(m) == Strip(m) = <<>>

\* `chat_history[:-2]`, the history argument of get_agent_response
HistoryArgMut(chat_history) == SubSeq(chat_history, 1, Len(chat_history) - 1)
HistoryArg(chat_history) == SubSeq(chat_history, 1, Len(chat_history) - 2)

\* `if not chat_history or chat_history[-1]["role"] != "user"`
NothingToAnswer(chat_history) ==
    \/ chat_history = <<>>
    \/ chat_history[Len(chat_history)].role # "user"

\* `chat_history[-1] = {...}`
ReplaceLastMut(chat_history, turn) == Append(chat_history, turn)
ReplaceLast(chat_history, turn) ==
    [chat_history EXCEPT ![Len(chat_history)] = turn]

NoTask == [pc |-> "none", chat_history |-> <<>>, user_message |-> <<>>,
           arg_history |-> <<>>, answering |-> 0, blank |-> FALSE]

ChatInit ==
    /\ history = <<>>
    /\ msg = <<>>
    /\ tasks = [t \in 1..MaxSubmits |-> NoTask]
    /\ submits = 0

\* add_user_message(message, chat_history): the new value of the Chatbot.
add_user_message(m, chat_history, k) ==
    IF IsBlank(m)
      THEN chat_history
      ELSE Append(chat_history, [role |-> "user", content |-> m, id |-> k])

\* The submit number k: add_user_message returns at once, its outputs replace
\* history and msg, and the get_bot_response chained to it by .then() is
\* dispatched with inputs=[history], the value just returned. It starts when
\* the event queue lets it.
Submit(m, k) ==
    /\ history' = add_user_message(m, history, k)
    /\ msg' = IF IsBlank(m) THEN m ELSE <<>>
    /\ tasks' = [tasks EXCEPT ![k] = [NoTask EXCEPT !.pc = "queued",
                                                    !.blank = IsBlank(m),
                                                    !.chat_history = history']]
    /\ submits' = k

\* submit_btn.click(add_user_message, ...).then(get_bot_response, ...)
SubmitBtnClick ==
    /\ submits < MaxSubmits
    /\ \E m \in Messages : Submit(m, submits + 1)
    /\ ChatOnly

\* msg.submit(add_user_message, ...).then(get_bot_response, ...)
MsgSubmit ==
    /\ submits < MaxSubmits
    /\ \E m \in Messages : Submit(m, submits + 1)
    /\ ChatOnly

\* Lines 64-75: up to the await of get_agent_response.
GBR_Start(t) ==
    /\ tasks[t].pc = "queued"
    /\ LET ch == tasks[t].chat_history
       IN IF NothingToAnswer(ch)
            THEN /\ history' = ch
                 /\ tasks' = [tasks EXCEPT ![t].pc = "done"]
            ELSE LET last == ch[Len(ch)]
                     shown == Append(ch, [role |-> "assistant", content |-> Placeholder,
                                          id |-> last.id])
                 IN /\ history' = shown
                    /\ tasks' = [tasks EXCEPT ![t].pc = "await",
                                              ![t].chat_history = shown,
                                              ![t].user_message = last.content,
                                              ![t].answering = last.id,
                                              ![t].arg_history = HistoryArg(shown)]
    /\ UNCHANGED <<msg, submits>>
    /\ ChatOnly

\* Lines 75-79: get_agent_response returns, the placeholder is replaced.
GBR_Finish(t) ==
    /\ tasks[t].pc = "await"
    /\ \E r \in Responses :
        LET final == ReplaceLast(tasks[t].chat_history,
                         [role |-> "assistant", content |-> r, id |-> tasks[t].answering])
        IN /\ history' = final
           /\ tasks' = [tasks EXCEPT ![t].pc = "done", ![t].chat_history = final]
    /\ UNCHANGED <<msg, submits>>
    /\ ChatOnly

\* clear = gr.ClearButton([msg, history])
ClearChat ==
    /\ history' = <<>>
    /\ msg' = <<>>
    /\ UNCHANGED <<tasks, submits>>
    /\ ChatOnly

ChatNext ==
    \/ SubmitBtnClick
    \/ MsgSubmit
    \/ \E t \in 1..MaxSubmits : GBR_Start(t)
    \/ \E t \in 1..MaxSubmits : GBR_Finish(t)
    \/ ClearChat

\* A session whose turns are serialized: no message is submitted while a
\* get_bot_response is queued or running.
NoTurnInFlight == \A t \in 1..MaxSubmits : tasks[t].pc \in {"none", "done"}

SerialSubmitBtnClick == NoTurnInFlight /\ SubmitBtnClick

SerialMsgSubmit == NoTurnInFlight /\ MsgSubmit

ChatSerialNext ==
    \/ SerialSubmitBtnClick
    \/ SerialMsgSubmit
    \/ \E t \in 1..MaxSubmits : GBR_Start(t)
    \/ \E t \in 1..MaxSubmits : GBR_Finish(t)

(***************************************************************************)
(* The specifications.                                                     *)
(***************************************************************************)
SyncSpecInit == SyncInit /\ FmtRest /\ GarRest /\ ChatInit
SyncSpec == SyncSpecInit /\ [][SyncNext]_vars

FmtSpecInit ==
    /\ SyncInit /\ GarRest /\ ChatInit
    /\ fmt_nodes \in SeqsUpTo(Nodes, MaxNodes)
    /\ fmt_out = FmtPending
FmtSpec == FmtSpecInit /\ [][FmtNext]_vars

AgentSpecInit ==
    /\ SyncInit /\ FmtRest /\ ChatInit
    /\ gar_pc = "idle"
    /\ gar_history \in SeqsUpTo(HistoryEntries, MaxHistory)
    /\ gar_retrieved = <<>>
    /\ gar_rerank = "-"
    /\ gar_nodes = <<>>
    /\ gar_trace = <<>>
    /\ gar_out = GarPending
AgentSpec == AgentSpecInit /\ [][AgentNext]_vars

\* The monitor with its loop unbounded. The event loop runs every step of
\* the coroutine that can be taken, and the backend brings every job to a
\* terminal status.
SyncLiveSpec ==
    /\ SyncSpecInit
    /\ [][SyncLiveNext]_vars
    /\ WF_vars(SyncClick)
    /\ WF_vars(RunSyncFlow_Trigger)
    /\ WF_vars(RunSyncFlow_Poll)
    /\ WF_vars(RunSyncFlow_PollOn)
    /\ WF_vars(RunSyncFlow_Sleep)
    /\ WF_vars(RunSyncFlow_Finish)
    /\ WF_vars(BackendAdvance)

ChatSpecInit == SyncInit /\ FmtRest /\ GarRest /\ ChatInit
ChatSpec == ChatSpecInit /\ [][ChatNext]_vars

ChatSerialSpec == ChatSpecInit /\ [][ChatSerialNext]_vars

(***************************************************************************)
(* Properties of the ingestion job monitor (SyncSpec).                     *)
(***************************************************************************)
Last(q) == q[Len(q)]

PollFailed == \E i \in 1..Len(reported) : reported[i].src = "poll" /\ ~reported[i].ok

TerminalReported == \E i \in 1..Len(reported) : reported[i].status \in TerminalStatuses

TriggerFailureReported == reported # <<>> /\ reported[1].src = "trigger" /\ ~reported[1].ok

IsProgress(e) == e.kind = "progress"

\* The statuses carried by the progress events, in the order of the events.
ProgressStatuses ==
    LET ps == SelectSeq(events, IsProgress)
    IN [i \in 1..Len(ps) |-> ps[i].status]

\* The statuses trigger_sync and the polls returned, in order.
ReportedStatuses == [i \in 1..Len(reported) |-> reported[i].status]

\* C1: a failed poll is surfaced to the caller as status text, and after a
\* failed poll no further poll of the job is made.
C1_PollFailureHalts ==
    [][ /\ (polls' = polls + 1 /\ ~Last(reported').ok
               => Last(events').status = Last(reported').status)
        /\ (PollFailed => polls' = polls) ]_vars

\* C2: once the backend has reported COMPLETE, FAILED or STOPPED, as the
\* trigger's initial status or as a poll result, get_sync_status is not
\* called again.
C2_NoPollAfterTerminal == [][TerminalReported => polls' = polls]_vars

\* C2 witness: the flow has ended after polls, the last of which reported STOPPED.
C2_Witness ==
    /\ sync_pc = "done"
    /\ polls >= 2
    /\ Last(reported).status = "STOPPED"

\* C3: after a failed trigger the flow has ended with exactly one event, the
\* error event carrying the failure text, and no call of get_sync_status.
C3_TriggerFailure ==
    TriggerFailureReported =>
        /\ sync_pc = "done"
        /\ events = <<ErrorEvent(reported[1].status)>>
        /\ polls = 0

\* C3 witness: the trigger has failed and the flow is over.
C3_Witness == TriggerFailureReported /\ sync_pc = "done" /\ Len(events) = 1

\* C4: every status the backend reports, the trigger's initial status and
\* each poll result, is emitted as a progress event. Stated for the scripted
\* sequence: when the backend has reported STARTING, IN_PROGRESS,
\* IN_PROGRESS, COMPLETE and the flow has ended, the progress events carry
\* exactly these 4 statuses.
Scripted == <<"STARTING", "IN_PROGRESS", "IN_PROGRESS", "COMPLETE">>
C4_EveryStatusIsProgress ==
    (sync_pc = "done" /\ ReportedStatuses = Scripted) =>
        /\ ProgressStatuses = ReportedStatuses
        /\ Len(ProgressStatuses) = 4

TriggerSucceeded == reported # <<>> /\ reported[1].src = "trigger" /\ reported[1].ok

\* The last event fits the last observed status.
LastEventFits ==
    /\ events # <<>>
    /\ Last(events) = SuccessEvent <=> current_status = "COMPLETE"
    /\ current_status \in {"FAILED", "STOPPED"} => Last(events) = EndedEvent(current_status)

\* C17: after a successful trigger, with the backend bringing the job to a
\* terminal status, run_sync_flow eventually ends, and it ends with the
\* success message exactly when the last observed status is COMPLETE and
\* with the failure ending for FAILED and STOPPED.
C17_FlowEnds == TriggerSucceeded ~> (sync_pc = "done" /\ LastEventFits)

(***************************************************************************)
(* Properties of format_sources (FmtSpec).                                 *)
(***************************************************************************)
\* C6: no two entries of the citation list are made from nodes with the
\* same source URI.
C6_NoDuplicateUri ==
    fmt_out.status = "returned" =>
        \A i, j \in 1..Len(fmt_out.lines) :
            i # j => SourceUri(fmt_nodes[fmt_out.origin[i]])
                        # SourceUri(fmt_nodes[fmt_out.origin[j]])

\* C6 witness: format_sources has returned citations for an input in which
\* two nodes carry the same non-empty URI.
C6_Witness ==
    /\ fmt_out.status = "returned"
    /\ fmt_out.lines # <<>>
    /\ \E i, j \in 1..Len(fmt_nodes) :
          /\ i < j
          /\ UriTruthy(SourceUri(fmt_nodes[i]))
          /\ SourceUri(fmt_nodes[i]) = SourceUri(fmt_nodes[j])

\* C7: format_sources never fails, whatever the metadata of the nodes.
C7_FormatSourcesTotal == fmt_out.status # "raised"

\* The nodes that are the first to carry their non-empty URI.
FirstSeen ==
    { i \in 1..Len(fmt_nodes) :
        /\ SourceUri(fmt_nodes[i]) # EmptyUri
        /\ \A j \in 1..(i - 1) : SourceUri(fmt_nodes[j]) # SourceUri(fmt_nodes[i]) }

\* The place of node i among the first-seen nodes.
Rank(i) == Cardinality({ j \in FirstSeen : j <= i })

ExampleNodes ==
    << [meta |-> TRUE, uri |-> <<"s3:", "", "b", "a.pdf">>, page |-> [t |-> "int", n |-> 2]],
       [meta |-> TRUE, uri |-> <<"s3:", "", "b", "a.pdf">>, page |-> [t |-> "int", n |-> 5]],
       [meta |-> TRUE, uri |-> <<"s3:", "", "b", "c.pdf">>, page |-> AbsentPage] >>

\* C13: the citations are one per distinct non-empty URI, in first-seen
\* order, each labelled with the last path segment of the URI and the page
\* of the first node carrying the URI; a.pdf page 2, a.pdf page 5, c.pdf
\* without page give a.pdf (Page 2) and c.pdf.
C13_FirstSeenOrder ==
    fmt_out.status = "returned" =>
        /\ Len(fmt_out.lines) = Cardinality(FirstSeen)
        /\ \A i \in FirstSeen :
              LET line == fmt_out.lines[Rank(i)]
                  uri == SourceUri(fmt_nodes[i])
                  page == PageNum(fmt_nodes[i])
              IN /\ line.filename = uri[Len(uri)]
                 /\ line.paged => (page.t = "int" /\ line.page = page.n)
                 /\ page.t = "absent" => ~line.paged
        /\ fmt_nodes = ExampleNodes =>
              fmt_out.lines = << [filename |-> "a.pdf", paged |-> TRUE, page |-> 2],
                                 [filename |-> "c.pdf", paged |-> FALSE, page |-> 0] >>

\* C13 witness: format_sources has returned for the example input.
C13_Witness ==
    /\ fmt_out.status = "returned"
    /\ fmt_nodes = ExampleNodes
    /\ Len(fmt_out.lines) = 2

\* C14: a citation carries the page suffix exactly when the page number of
\* its node is present and a positive integer.
C14_PageSuffixIffPositive ==
    fmt_out.status = "returned" =>
        \A i \in FirstSeen :
            fmt_out.lines[Rank(i)].paged
                <=> (PageNum(fmt_nodes[i]).t = "int" /\ PageNum(fmt_nodes[i]).n > 0)

\* C15: when no node carries a source URI, the empty sequence included,
\* format_sources returns the empty text and the answer built from it is the
\* agent's response alone.
C15_NoUriNoCitations ==
    (fmt_out.status # "pending"
        /\ \A i \in 1..Len(fmt_nodes) : SourceUri(fmt_nodes[i]) = EmptyUri) =>
        /\ fmt_out.status = "returned"
        /\ ~fmt_out.header
        /\ fmt_out.lines = <<>>
        /\ Answer(fmt_out).body = <<"response">>

\* C15 witness: format_sources has returned for nodes none of which has a
\* URI, one for lack of source metadata, one with an empty URI and a page.
C15_Witness ==
    /\ fmt_out.status = "returned"
    /\ Len(fmt_nodes) = 2
    /\ fmt_nodes[1] = NoSourceMetadata
    /\ fmt_nodes[2] = [meta |-> TRUE, uri |-> EmptyUri, page |-> [t |-> "int", n |-> 2]]

(***************************************************************************)
(* Properties of get_agent_response (AgentSpec).                           *)
(***************************************************************************)
GarEndedAt(call) == gar_pc = "done" /\ gar_trace # <<>> /\ Last(gar_trace) = call

Apology(e) == gar_out.status = "returned" /\ gar_out.kind = "apology" /\ gar_out.detail = e

\* C5: get_agent_response never raises; a failure of the history
\* conversion, the agent run, the direct query or the citation formatting
\* makes it return the apology with the error detail.
C5_NeverRaises ==
    /\ gar_out.status # "raised"
    /\ gar_pc = "done" => gar_out.status = "returned"
    /\ (gar_pc = "done" /\ ConvertRaises(gar_history)) => Apology("KeyError")
    /\ (GarEndedAt("agent.run")) => Apology("AgentError")
    /\ (GarEndedAt("retrieve")) => Apology("RetrievalError")
    /\ (GarEndedAt("rerank")) => Apology("RerankError")
    /\ (GarEndedAt("format_sources") /\ format_sources(gar_nodes).status = "raised")
          => Apology("ValueError")

\* C5 witness: the citation formatting has failed inside get_agent_response.
C5_Witness ==
    /\ GarEndedAt("format_sources")
    /\ format_sources(gar_nodes).status = "raised"
    /\ gar_out.kind = "apology"

\* C8: when the reranker errors on at least top_n retrieved passages, the
\* query still yields the first top_n of them in retrieval order and the
\* turn ends with an answer, not with an error message.
C8_RerankFallback ==
    (gar_pc = "done" /\ gar_rerank = "error" /\ Len(gar_retrieved) >= top_n) =>
        /\ gar_out.kind = "answer"
        /\ gar_nodes = Take(gar_retrieved, top_n)

\* C12: within one call the agent's answer is obtained before the citation
\* query is issued, no citation query is issued after a failed agent run,
\* and in the returned text the citation block only ever follows the answer.
C12_AnswerBeforeCitations ==
    /\ \A i \in 1..Len(gar_trace) :
          gar_trace[i] \in {"retrieve", "rerank", "format_sources"}
              => \E j \in 1..(i - 1) : gar_trace[j] = "agent.run"
    /\ Apology("AgentError") => \A i \in 1..Len(gar_trace) : gar_trace[i] = "agent.run"
    /\ gar_out.kind = "answer" =>
          /\ gar_out.body # <<>>
          /\ gar_out.body[1] = "response"
          /\ \A i \in 1..Len(gar_out.body) : gar_out.body[i] = "sources" => i > 1
          /\ gar_out.header => gar_out.body = <<"response", "sources">>

\* C12 witness: a call has returned an answer with a citation block.
C12_Witness ==
    /\ gar_pc = "done"
    /\ gar_out.kind = "answer"
    /\ gar_out.header
    /\ gar_trace = <<"agent.run", "retrieve", "rerank", "format_sources">>

(***************************************************************************)
(* Properties of the chat session (ChatSpec).                              *)
(***************************************************************************)
InFlight(t) == tasks[t].pc \in {"queued", "await"}

IsFinal(turn) == turn.role = "assistant" /\ turn.content # Placeholder

\* C9: when only non-empty messages were submitted and no get_bot_response
\* is in flight, the history holds no placeholder, no two final assistant
\* turns for the same user message, and every assistant turn directly
\* follows the user turn it answers.
C9_AtomicReplacement ==
    (\A t \in 1..MaxSubmits : ~InFlight(t) /\ ~tasks[t].blank) =>
        /\ \A i \in 1..Len(history) : history[i].content # Placeholder
        /\ \A i, j \in 1..Len(history) :
              (i # j /\ IsFinal(history[i]) /\ IsFinal(history[j]))
                  => history[i].id # history[j].id
        /\ \A i \in 1..Len(history) :
              history[i].role = "assistant" =>
                  /\ i > 1
                  /\ history[i - 1].role = "user"
                  /\ history[i - 1].id = history[i].id

Called(t) == tasks[t].pc \in {"await", "done"} /\ tasks[t].answering # 0

\* C10: the history handed to get_agent_response holds neither the user
\* message being answered nor the placeholder appended for it; that message
\* is handed over as the message argument alone.
C10_InFlightMessageNotInHistory ==
    \A t \in 1..MaxSubmits :
        Called(t) =>
            LET ch == tasks[t].chat_history
            IN /\ \A i \in 1..Len(tasks[t].arg_history) :
                      tasks[t].arg_history[i].id # tasks[t].answering
               /\ Len(ch) = Len(tasks[t].arg_history) + 2
               /\ ch[Len(ch) - 1].role = "user"
               /\ ch[Len(ch) - 1].id = tasks[t].answering
               /\ ch[Len(ch) - 1].content = tasks[t].user_message

\* C10 witness: a second turn is being answered, with the first in its history.
C10_Witness ==
    \E t \in 1..MaxSubmits :
        /\ tasks[t].pc = "await"
        /\ Len(tasks[t].arg_history) = 2
        /\ tasks[t].answering = 2

\* C16: the submit of an empty or whitespace-only message appends no turn,
\* and the get_bot_response chained to it does not call get_agent_response.
C16_BlankRejected ==
    \A t \in 1..MaxSubmits :
        tasks[t].blank =>
            /\ \A i \in 1..Len(history) : history[i].id # t
            /\ \A i \in 1..Len(tasks[t].chat_history) : tasks[t].chat_history[i].id # t
            /\ ~Called(t)

(***************************************************************************)
(* Properties of a serialized chat session (ChatSerialSpec).               *)
(***************************************************************************)
\* The number of non-empty messages submitted so far.
NonBlankSubmits == Cardinality({ t \in 1..submits : ~tasks[t].blank })

\* User and assistant turns alternate, a user turn first, and every
\* assistant turn is a final one answering the user turn before it.
Alternates(h) ==
    \A i \in 1..Len(h) :
        IF i % 2 = 1
          THEN h[i].role = "user"
          ELSE /\ h[i].role = "assistant"
               /\ h[i].content # Placeholder
               /\ h[i].id = h[i - 1].id

\* Every turn but a placeholder stays where it is and as it is.
TurnsKept ==
    \A i \in 1..Len(history) :
        history[i].content # Placeholder =>
            /\ i <= Len(history')
            /\ history'[i] = history[i]

\* A submit adds the user turn of a non-empty message and nothing else.
SubmitAddsUserTurn ==
    submits' # submits =>
        IF tasks'[submits'].blank
          THEN history' = history
          ELSE /\ Len(history') = Len(history) + 1
               /\ SubSeq(history', 1, Len(history)) = history
               /\ Last(history').role = "user"
               /\ Last(history').content \in Messages
               /\ \E i \in 1..Len(Last(history').content) : Last(history').content[i] # " "

\* C18: with serialized turns, whenever the submitted turns are completed the
\* history alternates user, assistant from a user turn on and has two turns
\* per non-empty message submitted; a submit adds just the user turn, and no
\* step changes a turn that was there before.
C18_SerializedHistory ==
    /\ [](NoTurnInFlight =>
            /\ Alternates(history)
            /\ Len(history) = 2 * NonBlankSubmits)
    /\ [][TurnsKept /\ SubmitAddsUserTurn]_vars

\* C18 witness: two non-empty messages, with an empty one between them,
\* were submitted and answered in turn.
C18_Witness ==
    /\ NoTurnInFlight
    /\ submits = 3
    /\ tasks[2].blank
    /\ Len(history) = 4

====
